---- MODULE Spec2Model ----
(***************************************************************************)
(* Model of the image processing pipeline of backend/app/main.py:          *)
(* process_image and the three ImageProcessor static methods               *)
(* (get_car_bbox, mask_license_plates, resize_to_aspect_ratio).            *)
(*                                                                         *)
(* Conventions                                                             *)
(*  - Python None is the empty tuple <<>>; a box is a 4-tuple              *)
(*    <<x1, y1, x2, y2>>, as in the code.                                  *)
(*  - A detector reports float coordinates (box.xyxy[0].tolist()).  They   *)
(*    are carried in half-pixel units, so the raw value 3 is 1.5 pixels;   *)
(*    int() truncates them toward zero.                                    *)
(*  - An ndarray is its shape (h, w), the content it was decoded with      *)
(*    (base) and the set of pixels <<y, x>> that a slice assignment has    *)
(*    overwritten with (255, 255, 255) (painted).                          *)
(*  - target_aspect, current_aspect, h * target_aspect and                 *)
(*    w / target_aspect are IEEE doubles in the code.  For every           *)
(*    1 <= w, h <= 3000 the doubles give the same comparison and the same  *)
(*    int() as exact rational arithmetic, which is what is written here.   *)
(***************************************************************************)
EXTENDS Integers, Sequences, FiniteSets, TLC

VARIABLES
    pc,          \* the statement of process_image that runs next
    file,        \* the uploaded file at image_path, as cv2.imread sees it
    model_car,   \* what model_car(image) does for this request
    model_lp,    \* what model_lp(image) does for this request
    img,         \* the ndarray bound to img / masked_img
    car_box,     \* local car_box of process_image
    final_img,   \* local final_img of process_image: its (width, height)
    output,      \* the file written at output_path: its (width, height)
    error,       \* the exception process_image re-raises to its caller
    crop,        \* x1, y1, new_w, new_h computed by resize_to_aspect_ratio
    car_input,   \* the ndarray value model_car was called on
    crop_input,  \* the ndarray value resize_to_aspect_ratio was called on
    crop_box,    \* the car_box resize_to_aspect_ratio was called with
    stages       \* the statements of process_image completed so far

vars == <<pc, file, model_car, model_lp, img, car_box, final_img, output,
          error, crop, car_input, crop_input, crop_box, stages>>

----------------------------------------------------------------------------
(* Configuration constants *)

TARGET_SIZE == <<1024, 576>>

LICENSE_PLATE_CLASS_ID == 0

CAR_CLASS_IDS == {2, 5, 7}

None == <<>>

FILL == <<255, 255, 255>>

----------------------------------------------------------------------------
(* Bounds of the model *)

\* Largest width and height of the images whose pixels are tracked
MaxW == 3

MaxH == 2

\* Most detections the plate detector reports
MaxPlates == 2

\* Most detections the vehicle detector reports
MaxDets == 3

\* Largest width and height of the images cropped, the scenario sizes apart
CropMaxDim == 17

----------------------------------------------------------------------------
(* Python and numpy primitives *)

Max(a, b) == IF a >= b THEN a ELSE b

Min(a, b) == IF a <= b THEN a ELSE b

\* int(v) of a float v given in half units: truncation toward zero
PyInt(v2) == IF v2 >= 0 THEN v2 \div 2 ELSE -((-v2) \div 2)

\* x1, y1, x2, y2 = map(int, box.xyxy[0].tolist())
IntBox(xyxy) == <<PyInt(xyxy[1]), PyInt(xyxy[2]), PyInt(xyxy[3]), PyInt(xyxy[4])>>

\* One bound of a[start:stop] on an axis of length n: a negative bound counts
\* from the far end, and the result is clipped to 0..n
SliceBound(i, n) == IF i < 0 THEN Max(i + n, 0) ELSE Min(i, n)

\* The indices selected by a[start:stop] on an axis of length n
SliceRange(start, stop, n) == SliceBound(start, n) .. (SliceBound(stop, n) - 1)

\* The value of pixel (y, x) of the content an image was decoded with
BasePixel(base, y, x) == IF (x + y) % 3 = 2 THEN FILL ELSE <<0, 0, 0>>

\* image[y, x]
Pixel(image, y, x) ==
    IF <<y, x>> \in image.painted THEN FILL ELSE BasePixel(image.base, y, x)

\* cv2.imread(image_path) of a decodable file
Decoded(f) == [h |-> f.h, w |-> f.w, base |-> f.base, painted |-> {}]

\* img before cv2.imread has run
NoImage == [h |-> 0, w |-> 0, base |-> "none", painted |-> {}]

----------------------------------------------------------------------------
(* ImageProcessor.get_car_bbox *)

\* The car_boxes list after the two loops over results and result.boxes:
\* the int boxes of the detections whose class is a vehicle class, in order
car_boxes(dets) ==
    LET F[i \in 0..Len(dets)] ==
            IF i = 0 THEN <<>>
            ELSE IF dets[i].cls \in CAR_CLASS_IDS
                 THEN Append(F[i - 1], IntBox(dets[i].xyxy))
                 ELSE F[i - 1]
    IN  F[Len(dets)]

\* key=lambda b: (b[2] - b[0]) * (b[3] - b[1])
BoxArea(b) == (b[3] - b[1]) * (b[4] - b[2])

\* A max that lets a later box of equal key replace the running maximum
PyMaxLast(boxes) ==
    LET F[i \in 1..Len(boxes)] ==
            IF i = 1 THEN boxes[1]
            ELSE IF BoxArea(boxes[i]) >= BoxArea(F[i - 1]) THEN boxes[i] ELSE F[i - 1]
    IN  F[Len(boxes)]

\* max(boxes, key=...) of a non-empty list: the running maximum is replaced
\* only by a strictly larger key, so the first of several maxima is returned
PyMax(boxes) ==
    LET F[i \in 1..Len(boxes)] ==
            IF i = 1 THEN boxes[1]
            ELSE IF BoxArea(boxes[i]) > BoxArea(F[i - 1]) THEN boxes[i] ELSE F[i - 1]
    IN  F[Len(boxes)]

\* The value get_car_bbox returns; an exception of model_car is caught,
\* logged, and None is returned
get_car_bbox(model) ==
    IF model.raises THEN None
    ELSE IF car_boxes(model.boxes) # <<>> THEN PyMax(car_boxes(model.boxes)) ELSE None

----------------------------------------------------------------------------
(* ImageProcessor.mask_license_plates *)

\* A slice assignment that also writes row y2 and column x2
PaintSliceInclusive(image, b) ==
    [image EXCEPT !.painted = @ \cup
        ((SliceBound(b[2], image.h) .. SliceBound(b[4], image.h))
            \X (SliceBound(b[1], image.w) .. SliceBound(b[3], image.w)))]

\* image[y1:y2, x1:x2] = (255, 255, 255)
PaintSlice(image, b) ==
    [image EXCEPT !.painted = @ \cup
        (SliceRange(b[2], b[4], image.h) \X SliceRange(b[1], b[3], image.w))]

\* The image after the loops over results and result.boxes
mask_license_plates(image, dets) ==
    LET F[i \in 0..Len(dets)] ==
            IF i = 0 THEN image
            ELSE IF dets[i].cls = LICENSE_PLATE_CLASS_ID
                 THEN PaintSlice(F[i - 1], IntBox(dets[i].xyxy))
                 ELSE F[i - 1]
    IN  F[Len(dets)]

----------------------------------------------------------------------------
(* ImageProcessor.resize_to_aspect_ratio *)

target_width == TARGET_SIZE[1]

target_height == TARGET_SIZE[2]

\* Crop dimensions with the two branches of the aspect test exchanged
CropDimsSwapped(h, w) ==
    IF w * target_height < h * target_width
    THEN <<(h * target_width) \div target_height, h>>
    ELSE <<w, (w * target_height) \div target_width>>

\* <<new_w, new_h>>.  current_aspect > target_aspect is w / h > 1024 / 576;
\* int(h * target_aspect) and int(w / target_aspect) truncate a positive value
CropDims(h, w) ==
    IF w * target_height > h * target_width
    THEN <<(h * target_width) \div target_height, h>>
    ELSE <<w, (w * target_height) \div target_width>>

\* A crop origin without the min(x1, w - new_w) and min(y1, h - new_h) clamps
CropOriginNoUpperClamp(h, w, new_w, new_h, box) ==
    IF box # None
    THEN <<Max(0, (box[1] + box[3]) \div 2 - new_w \div 2),
           Max(0, (box[2] + box[4]) \div 2 - new_h \div 2)>>
    ELSE <<(w - new_w) \div 2, (h - new_h) \div 2>>

\* A crop origin anchored on the corner of the box instead of its centre
CropOriginCorner(h, w, new_w, new_h, box) ==
    IF box # None
    THEN <<Min(Max(0, box[1] - new_w \div 2), w - new_w),
           Min(Max(0, box[2] - new_h \div 2), h - new_h)>>
    ELSE <<0, 0>>

\* <<x1, y1>>, the top-left corner of the crop; "if car_box:" is false for
\* None and true for every 4-tuple
CropOrigin(h, w, new_w, new_h, box) ==
    IF box # None
    THEN <<Min(Max(0, (box[1] + box[3]) \div 2 - new_w \div 2), w - new_w),
           Min(Max(0, (box[2] + box[4]) \div 2 - new_h \div 2), h - new_h)>>
    ELSE <<(w - new_w) \div 2, (h - new_h) \div 2>>

\* <<x1, y1, new_w, new_h>> of the crop
CropWindow(h, w, box) ==
    LET d == CropDims(h, w)
        o == CropOrigin(h, w, d[1], d[2], box)
    IN  <<o[1], o[2], d[1], d[2]>>

\* cropped.shape[:2] for cropped = image[y1:y2, x1:x2]: <<rows, columns>>
CroppedShape(h, w, win) ==
    <<Cardinality(SliceRange(win[2], win[2] + win[4], h)),
      Cardinality(SliceRange(win[1], win[1] + win[3], w))>>

\* cv2.resize(src, dsize) asserts that src is not empty
ResizeRaises(shape) == shape[1] = 0 \/ shape[2] = 0

\* The (width, height) of cv2.resize(src, dsize) of a non-empty src
ResizedSize(shape, dsize) == <<dsize[1], dsize[2]>>

----------------------------------------------------------------------------
(* process_image *)

\* A try block that masks the plates before it looks for the vehicle
MaskBeforeDetect(s) ==
    CASE s = "imread" -> "mask_license_plates"
      [] s = "mask_license_plates" -> "get_car_bbox"
      [] s = "get_car_bbox" -> "resize_to_aspect_ratio"
      [] s = "resize_to_aspect_ratio" -> "imwrite"
      [] s = "imwrite" -> "return"

\* The statement that follows statement s of the try block
NextStatement(s) ==
    CASE s = "imread" -> "get_car_bbox"
      [] s = "get_car_bbox" -> "mask_license_plates"
      [] s = "mask_license_plates" -> "resize_to_aspect_ratio"
      [] s = "resize_to_aspect_ratio" -> "imwrite"
      [] s = "imwrite" -> "return"

\* Statement s completed normally
Completed(s) ==
    /\ pc' = NextStatement(s)
    /\ stages' = Append(stages, s)
    /\ error' = error

\* Statement s raised exception e: the except clause logs it and re-raises
Raised(e) ==
    /\ pc' = "raise"
    /\ error' = e
    /\ stages' = stages

\* img = cv2.imread(image_path); if img is None: raise ValueError
Imread ==
    /\ pc = "imread"
    /\ IF file.valid
       THEN /\ img' = Decoded(file)
            /\ Completed("imread")
       ELSE /\ img' = img
            /\ Raised("ValueError")
    /\ UNCHANGED <<file, model_car, model_lp, car_box, final_img, output, crop,
                   car_input, crop_input, crop_box>>

\* car_box = ImageProcessor.get_car_bbox(img)
GetCarBbox ==
    /\ pc = "get_car_bbox"
    /\ car_input' = img
    /\ car_box' = get_car_bbox(model_car)
    /\ Completed("get_car_bbox")
    /\ UNCHANGED <<file, model_car, model_lp, img, final_img, output, crop,
                   crop_input, crop_box>>

\* masked_img = ImageProcessor.mask_license_plates(img); masked_img is img
MaskLicensePlates ==
    /\ pc = "mask_license_plates"
    /\ IF model_lp.raises
       THEN /\ img' = img
            /\ Raised("DetectorError")
       ELSE /\ img' = mask_license_plates(img, model_lp.boxes)
            /\ Completed("mask_license_plates")
    /\ UNCHANGED <<file, model_car, model_lp, car_box, final_img, output, crop,
                   car_input, crop_input, crop_box>>

\* final_img = ImageProcessor.resize_to_aspect_ratio(masked_img, car_box)
ResizeToAspectRatio ==
    /\ pc = "resize_to_aspect_ratio"
    /\ crop_input' = img
    /\ crop_box' = car_box
    /\ crop' = CropWindow(img.h, img.w, car_box)
    /\ IF ResizeRaises(CroppedShape(img.h, img.w, crop'))
       THEN /\ final_img' = final_img
            /\ Raised("cv2.error")
       ELSE /\ final_img' = ResizedSize(CroppedShape(img.h, img.w, crop'), TARGET_SIZE)
            /\ Completed("resize_to_aspect_ratio")
    /\ UNCHANGED <<file, model_car, model_lp, img, car_box, output, car_input>>

\* cv2.imwrite(str(output_path), final_img); return str(output_path)
Imwrite ==
    /\ pc = "imwrite"
    /\ output' = final_img
    /\ Completed("imwrite")
    /\ UNCHANGED <<file, model_car, model_lp, img, car_box, final_img, crop,
                   car_input, crop_input, crop_box>>

Next == Imread \/ GetCarBbox \/ MaskLicensePlates \/ ResizeToAspectRatio \/ Imwrite

----------------------------------------------------------------------------
(* Requests: the file and what the two detectors report for it *)

\* A file cv2.imread cannot decode (it returns None), and one it decodes to
\* an h x w image
InvalidFile == [valid |-> FALSE, h |-> 0, w |-> 0, base |-> "none"]

ImageFile(h, w) == [valid |-> TRUE, h |-> h, w |-> w, base |-> "checker"]

\* A detector call that raises, and one that returns detections
Raises == [raises |-> TRUE, boxes |-> <<>>]

Reports(dets) == [raises |-> FALSE, boxes |-> dets]

\* A box of result.boxes: int(box.cls[0]) and box.xyxy[0] in half pixels
Detection(c, b) == [cls |-> c, xyxy |-> b]

\* Sequences of at most n elements of S
SeqUpTo(S, n) == UNION {[1..k -> S] : k \in 0..n}

\* The state at entry of process_image for one request
Start(f, car, lp) ==
    /\ pc = "imread"
    /\ file = f
    /\ model_car = car
    /\ model_lp = lp
    /\ img = NoImage
    /\ car_box = None
    /\ final_img = None
    /\ output = None
    /\ error = "none"
    /\ crop = None
    /\ car_input = NoImage
    /\ crop_input = NoImage
    /\ crop_box = None
    /\ stages = <<>>

----------------------------------------------------------------------------
(* Spec: small images, every pixel tracked, plate boxes inside and outside
   the image *)

\* x and y extents of the plate boxes, in half pixels
PlateXIntervals ==
    {<<0, 2>>, <<3, 4>>, <<-1, 2>>, <<-2, 4>>, <<-4, -2>>, <<2, 2 * MaxW + 2>>}

PlateYIntervals == {<<0, 2>>, <<-2, 2>>, <<2, 2 * MaxH + 2>>}

PlateDets ==
    {Detection(LICENSE_PLATE_CLASS_ID, <<x[1], y[1], x[2], y[2]>>) :
        x \in PlateXIntervals, y \in PlateYIntervals}
    \cup {Detection(1, <<0, 0, 2, 2>>), Detection(1, <<2, 0, 2 * MaxW + 2, 2>>)}

SmallFiles == {InvalidFile} \cup {ImageFile(h, w) : h \in 1..MaxH, w \in 1..MaxW}

Init ==
    \E f \in SmallFiles,
       car \in {Raises, Reports(<<>>), Reports(<<Detection(2, <<0, 0, 2, 2>>)>>)},
       lp \in {Raises} \cup {Reports(d) : d \in SeqUpTo(PlateDets, MaxPlates)} :
        Start(f, car, lp)

Spec == Init /\ [][Next]_vars

----------------------------------------------------------------------------
(* SpecLocate: sequences of vehicle-detector detections of several classes,
   with equal and different areas *)

LocateBoxes == {<<0, 0, 4, 4>>, <<2, 2, 7, 7>>, <<0, 0, 6, 6>>}

LocateDets == {Detection(c, b) : c \in {1, 2, 5, 7}, b \in LocateBoxes}

InitLocate ==
    \E f \in {InvalidFile, ImageFile(MaxW, MaxW)},
       car \in {Raises} \cup {Reports(d) : d \in SeqUpTo(LocateDets, MaxDets)},
       lp \in {Raises, Reports(<<>>)} :
        Start(f, car, lp)

SpecLocate == InitLocate /\ [][Next]_vars

----------------------------------------------------------------------------
(* SpecCrop: image sizes of every aspect ratio and vehicle boxes whose centre
   is inside, at the edge of and beyond the image *)

ScenarioSizes == {<<2000, 1000>>, <<1024, 576>>, <<1920, 1080>>, <<1000, 2000>>}

\* <<w, h>>
CropSizes == ((1..CropMaxDim) \X (1..CropMaxDim)) \cup ScenarioSizes

\* Extents, in pixels, of a box along an axis of length n
AxisIntervals(n) ==
    {<<a, a + k>> : a \in {-2, 0, n \div 2, n - 1, n}, k \in 1..2} \cup {<<0, n>>}

CropBoxes(h, w) ==
    {<<2 * x[1], 2 * y[1], 2 * x[2], 2 * y[2]>> :
        x \in AxisIntervals(w), y \in AxisIntervals(h)}

InitCrop ==
    \/ \E s \in CropSizes :
        \E car \in {Reports(<<>>)}
                   \cup {Reports(<<Detection(2, b)>>) : b \in CropBoxes(s[2], s[1])} :
            Start(ImageFile(s[2], s[1]), car, Reports(<<>>))
    \/ \E f \in {InvalidFile, ImageFile(target_height, target_width)},
          car \in {Raises, Reports(<<>>)},
          lp \in {Raises, Reports(<<Detection(LICENSE_PLATE_CLASS_ID, <<0, 0, 2, 2>>)>>)} :
        Start(f, car, lp)

SpecCrop == InitCrop /\ [][Next]_vars

----------------------------------------------------------------------------
(* Vocabulary of the properties *)

\* Statement s of process_image has completed
Done(s) == \E i \in DOMAIN stages : stages[i] = s

\* The positions of image: <<y, x>>
Positions(image) == (0..(image.h - 1)) \X (0..(image.w - 1))

\* The int boxes of the plate-class detections of the plate detector
PlateBoxes ==
    {IntBox(model_lp.boxes[i].xyxy) :
        i \in {j \in DOMAIN model_lp.boxes : model_lp.boxes[j].cls = LICENSE_PLATE_CLASS_ID}}

\* Box b lies inside image: 0 <= x1 < x2 <= W and 0 <= y1 < y2 <= H
InImage(b, image) ==
    /\ 0 <= b[1] /\ b[1] < b[3] /\ b[3] <= image.w
    /\ 0 <= b[2] /\ b[2] < b[4] /\ b[4] <= image.h

\* Position p = <<y, x>> is in the half-open rectangle of box b
Covers(b, p) == b[1] <= p[2] /\ p[2] < b[3] /\ b[2] <= p[1] /\ p[1] < b[4]

\* The image is wider than, at, or narrower than the target aspect ratio
Wider(image) == image.w * target_height > image.h * target_width

AtTarget(image) == image.w * target_height = image.h * target_width

----------------------------------------------------------------------------
(* C1 *)

\* C1: for every decodable image (H >= 1, W >= 1) and any vehicle box or
\* none, when the plate detector does not fail, process_image does not raise,
\* the crop handed to cv2.resize has new_w >= 1 and new_h >= 1, and the
\* image written has exactly TARGET_SIZE dimensions.
C1_ProcessReturnsTargetSize ==
    (file.valid /\ ~model_lp.raises) =>
        /\ pc # "raise"
        /\ crop # None => (crop[3] >= 1 /\ crop[4] >= 1)
        /\ pc = "return" => output = TARGET_SIZE

----------------------------------------------------------------------------
(* C2 *)

\* C2: when the vehicle detector or the plate detector raises, process_image
\* raises to its caller and writes no output; after a vehicle-detector error
\* the pipeline does not go on to masking, cropping and saving.
C2_DetectorErrorFailsProcess ==
    /\ (file.valid /\ (model_car.raises \/ model_lp.raises)) =>
            /\ output = None
            /\ pc # "return"
    /\ (file.valid /\ model_car.raises) =>
            /\ ~Done("get_car_bbox")
            /\ pc \in {"imread", "get_car_bbox", "raise"}

----------------------------------------------------------------------------
(* C3 *)

\* The positions of the vehicle-class detections of the vehicle detector
VehiclePositions == {i \in DOMAIN model_car.boxes : model_car.boxes[i].cls \in CAR_CLASS_IDS}

\* The int box and the area of the detection at position i
VehicleBox(i) == IntBox(model_car.boxes[i].xyxy)

VehicleArea(i) == (VehicleBox(i)[3] - VehicleBox(i)[1]) * (VehicleBox(i)[4] - VehicleBox(i)[2])

\* C3: once get_car_bbox has returned from a detector call that did not
\* raise, car_box is None exactly when no detection is of a vehicle class;
\* otherwise it is the box of the first vehicle-class detection of maximal
\* area.  Detections of other classes play no part.
C3_LargestFirstVehicle ==
    (Done("get_car_bbox") /\ ~model_car.raises) =>
        /\ car_box = None <=> VehiclePositions = {}
        /\ VehiclePositions # {} =>
            \E i \in VehiclePositions :
                /\ \A j \in VehiclePositions : VehicleArea(j) <= VehicleArea(i)
                /\ \A j \in VehiclePositions : j < i => VehicleArea(j) < VehicleArea(i)
                /\ car_box = VehicleBox(i)

\* get_car_bbox has chosen between two different vehicle boxes of the same,
\* maximal area, in the presence of a larger detection of another class
C3_Witness ==
    /\ Done("get_car_bbox") /\ ~model_car.raises
    /\ \E i, j \in VehiclePositions :
        /\ i < j
        /\ VehicleArea(i) = VehicleArea(j)
        /\ VehicleBox(i) # VehicleBox(j)
        /\ \A k \in VehiclePositions : VehicleArea(k) <= VehicleArea(i)
        /\ car_box = VehicleBox(i)
    /\ \E k \in DOMAIN model_car.boxes :
        /\ k \notin VehiclePositions
        /\ BoxArea(IntBox(model_car.boxes[k].xyxy)) > BoxArea(car_box)

----------------------------------------------------------------------------
(* C4 *)

\* C4: when every plate-class box lies inside the image, after
\* mask_license_plates every pixel inside some plate-class box is the fill
\* colour and every other pixel has the value it was decoded with; the
\* detections of other classes change nothing.
C4_MaskPaintsExactlyThePlateBoxes ==
    (Done("mask_license_plates") /\ \A b \in PlateBoxes : InImage(b, img)) =>
        \A p \in Positions(img) :
            Pixel(img, p[1], p[2]) =
                IF \E b \in PlateBoxes : Covers(b, p)
                THEN FILL
                ELSE Pixel(Decoded(file), p[1], p[2])

\* mask_license_plates has painted the box x1 = 1, y1 = 0, x2 = 2, y2 = 1 of
\* an image three pixels wide: the pixel in it was dark and is now white, the
\* column on its left keeps its dark pixel, the column on its right keeps the
\* value it had, and a detection of another class covers pixel (0, 0)
C4_Witness ==
    /\ Done("mask_license_plates")
    /\ img.w = 3
    /\ PlateBoxes = {<<1, 0, 2, 1>>}
    /\ \E i \in DOMAIN model_lp.boxes :
        /\ model_lp.boxes[i].cls # LICENSE_PLATE_CLASS_ID
        /\ Covers(IntBox(model_lp.boxes[i].xyxy), <<0, 0>>)
    /\ Pixel(Decoded(file), 0, 1) # FILL
    /\ Pixel(img, 0, 1) = FILL
    /\ Pixel(img, 0, 0) # FILL
    /\ Pixel(img, 0, 2) = Pixel(Decoded(file), 0, 2)

----------------------------------------------------------------------------
(* C5 *)

\* C5: after mask_license_plates the pixels overwritten are exactly the
\* pixels of the image that lie in some plate-class box, also when a box has
\* a negative coordinate or reaches beyond the image: the box is clamped to
\* the image, nothing outside it is written and everything of it inside the
\* image is written.
C5_MaskClampsBoxesToTheImage ==
    Done("mask_license_plates") =>
        img.painted = {p \in Positions(img) : \E b \in PlateBoxes : Covers(b, p)}

----------------------------------------------------------------------------
(* C6 *)

\* The statements of the try block of process_image, in order
Pipeline ==
    <<"imread", "get_car_bbox", "mask_license_plates", "resize_to_aspect_ratio", "imwrite">>

\* C6: the vehicle detector runs on the image exactly as decoded, before any
\* pixel is overwritten; masking comes strictly after it; the cropper runs on
\* the masked image with the box computed before masking; the output is
\* written only after all the stages have completed, in this order.
C6_DetectThenMaskThenCrop ==
    /\ \E n \in 0..Len(Pipeline) : stages = SubSeq(Pipeline, 1, n)
    /\ Done("get_car_bbox") => car_input = Decoded(file)
    /\ Done("mask_license_plates") => Done("get_car_bbox")
    /\ crop # None =>
        /\ Done("mask_license_plates")
        /\ crop_input = img
        /\ crop_box = car_box
        /\ crop = CropWindow(img.h, img.w, car_box)
    /\ output # None => stages = Pipeline

\* process_image has returned after writing an image on which a vehicle was
\* found and a plate was painted over
C6_Witness ==
    /\ pc = "return"
    /\ output # None
    /\ car_box # None
    /\ img.painted # {}
    /\ car_input.painted = {}
    /\ crop_input.painted = img.painted

----------------------------------------------------------------------------
(* C7 *)

\* C7: for an image at the target aspect ratio exactly (W * 576 = H * 1024),
\* with or without a vehicle box, the crop window is the whole image.
C7_TargetAspectIsNotCropped ==
    (crop # None /\ AtTarget(crop_input)) => crop = <<0, 0, crop_input.w, crop_input.h>>

\* resize_to_aspect_ratio has run on a 16 x 9 image with a vehicle box whose
\* centre is right of and below the centre of the image
C7_Witness ==
    /\ crop # None
    /\ crop_input.w = 16 /\ crop_input.h = 9
    /\ crop_box # None
    /\ crop_box[1] + crop_box[3] > crop_input.w
    /\ crop_box[2] + crop_box[4] > crop_input.h

----------------------------------------------------------------------------
(* C8 *)

\* The centre of the vehicle box lies in the valid clamp range:
\* 0 <= centre - new/2 <= extent - new on both axes (all terms doubled)
InClampRange ==
    /\ 0 <= crop_box[1] + crop_box[3] - crop[3]
    /\ crop_box[1] + crop_box[3] - crop[3] <= 2 * (crop_input.w - crop[3])
    /\ 0 <= crop_box[2] + crop_box[4] - crop[4]
    /\ crop_box[2] + crop_box[4] - crop[4] <= 2 * (crop_input.h - crop[4])

\* Twice the centre of the crop window, and twice its anchor: the centre of
\* the vehicle box, or of the image when there is none
CropCentre2 == <<2 * crop[1] + crop[3], 2 * crop[2] + crop[4]>>

Anchor2 ==
    IF crop_box # None
    THEN <<crop_box[1] + crop_box[3], crop_box[2] + crop_box[4]>>
    ELSE <<crop_input.w, crop_input.h>>

\* C8 as stated: the centre of the crop window equals the centre of the
\* vehicle box when that centre is in the valid clamp range, and the centre
\* of the image when there is no vehicle box, for every parity.
C8_CropCentreEqualsAnchor ==
    (crop # None /\ (crop_box # None => InClampRange)) => CropCentre2 = Anchor2

\* C8 as amended: in those cases the centre of the crop window is at most
\* half a pixel left of or above its anchor or, with a vehicle box, half a
\* pixel right of or below it; it equals the anchor on an axis exactly when
\* the doubled anchor and the crop extent have the same parity.
C8_CropCentreWithinHalfPixel ==
    (crop # None /\ (crop_box # None => InClampRange)) =>
        \A k \in 1..2 :
            LET d == Anchor2[k] - CropCentre2[k]
            IN  /\ d \in {-1, 0, 1}
                /\ crop_box = None => d >= 0
                /\ d = 0 <=> (Anchor2[k] - crop[k + 2]) % 2 = 0

\* resize_to_aspect_ratio has centred a crop on a vehicle box strictly inside
\* the clamp range, half a pixel off on the x axis
C8_Witness ==
    /\ crop # None
    /\ crop_box # None
    /\ InClampRange
    /\ crop[1] > 0 /\ crop[1] < crop_input.w - crop[3]
    /\ Anchor2[1] - CropCentre2[1] = -1
    /\ Anchor2[2] = CropCentre2[2]

----------------------------------------------------------------------------
(* C9 *)

\* The crop window lies inside the image it is cut from
CropFits ==
    /\ 0 <= crop[1] /\ 0 <= crop[2]
    /\ crop[1] + crop[3] <= crop_input.w
    /\ crop[2] + crop[4] <= crop_input.h
    /\ crop[3] <= crop_input.w
    /\ crop[4] <= crop_input.h

\* The dimension the aspect ratio selects stays at the full source extent
FullExtentKept ==
    IF Wider(crop_input) THEN crop[4] = crop_input.h ELSE crop[3] = crop_input.w

\* C9 as stated: for every image size and every vehicle box or none, the
\* crop window lies inside the image, and exactly one of its two dimensions
\* is smaller than the source's while the other is the full source extent
\* (new_h = H when the image is wider than the target aspect, new_w = W
\* otherwise).
C9_CropFitsAndShrinksExactlyOne ==
    crop # None =>
        /\ CropFits
        /\ FullExtentKept
        /\ (crop[3] < crop_input.w) # (crop[4] < crop_input.h)

\* C9 as amended: the crop window lies inside the image, the dimension the
\* aspect ratio selects is the full source extent, and the other dimension is
\* smaller than the source's unless the image is at the target aspect ratio
\* exactly, where neither is.
C9_CropFitsAndShrinksAtMostOne ==
    crop # None =>
        /\ CropFits
        /\ FullExtentKept
        /\ ~AtTarget(crop_input) => (crop[3] < crop_input.w) # (crop[4] < crop_input.h)
        /\ AtTarget(crop_input) => (crop[3] = crop_input.w /\ crop[4] = crop_input.h)

\* resize_to_aspect_ratio has clamped, on a wide image, the crop around a
\* vehicle box whose centre is beyond the right and bottom edges
C9_Witness ==
    /\ crop # None
    /\ crop_box # None
    /\ Wider(crop_input)
    /\ crop_box[1] + crop_box[3] > 2 * crop_input.w
    /\ crop_box[2] + crop_box[4] > 2 * crop_input.h
    /\ crop[3] >= 1 /\ crop[3] < crop_input.w
    /\ crop[1] = crop_input.w - crop[3]

----------------------------------------------------------------------------
(* C10 *)

\* n is an integer nearest to the fraction num / den (den > 0)
Nearest(n, num, den) == 2 * n * den - 2 * num \in (-den)..den

\* C10: new_h = H and new_w = round(H * 1024 / 576) when
\* W / H > 1024 / 576, otherwise new_w = W and new_h = round(W * 576 / 1024);
\* a 2000 x 1000 image without vehicle box gets new_h = 1000, new_w = 1778,
\* x1 = 111, y1 = 0.
C10_CropDimsRounded ==
    crop # None =>
        /\ IF Wider(crop_input)
           THEN /\ crop[4] = crop_input.h
                /\ Nearest(crop[3], crop_input.h * target_width, target_height)
           ELSE /\ crop[3] = crop_input.w
                /\ Nearest(crop[4], crop_input.w * target_height, target_width)
        /\ (crop_input.w = 2000 /\ crop_input.h = 1000 /\ crop_box = None) =>
                crop = <<111, 0, 1778, 1000>>

====
